---- MODULE Spec2Model ----
(***************************************************************************)
(* NavCity analysis: the Sample Normalizer (process_raw_data) and the      *)
(* Metric Engine (calculate_all_metrics) of src/code/metrics.py, under     *)
(* Spec; the Aggregator (merge_block_results, average_metrics) and the     *)
(* Corrector (fix_erroneous_data) over the result files, under SpecAgg;    *)
(* the Batch Runner (main, process_data_folder of src/code/run_analysis.py *)
(* and the batch loops of src/visualization.py), under SpecRun.            *)
(*                                                                         *)
(* Numbers.  Every float64 of the program is a fixed-point integer with    *)
(* Scale units per 1.0: a coordinate of -4.1 is -4100, a lapsed time of 2  *)
(* is 2000.  Sqrt and FDiv round towards minus infinity at that            *)
(* resolution.  The Euler angle columns feed no metric and are left out.   *)
(***************************************************************************)
EXTENDS Integers, Sequences, FiniteSets

VARIABLES file, data, results, err, pc

(* the result files of one data folder and the correction applied to them *)
VARIABLES blockFiles, merged, averaged, warnings, fixCall, aggPc

sessionVars == <<file, data, results, err, pc>>

(* one run of the pipeline: the --steps list, the state of every session   *)
(* file, the steps executed so far, the sessions each step gave output for *)
VARIABLES runSteps, sessionStatus, runLog, runOut, runPos, runPc

aggVars == <<blockFiles, merged, averaged, warnings, fixCall, aggPc>>

runVars == <<runSteps, sessionStatus, runLog, runOut, runPos, runPc>>

vars == <<sessionVars, aggVars, runVars>>

-----------------------------------------------------------------------------
(* Bounds of the explored inputs *)

MaxLen == 3
MaxTime == 2

-----------------------------------------------------------------------------
(* Configuration constants of metrics.py *)

Scale == 10^3

TARGET_ORDER ==
  << "Automobile shop", "Police station ", "Fire Station", "Bank",
     "Pawn Shop", "Pizzeria", "Quattroki Restaurant", "High School" >>

START_X == 0
START_Z == -4100

MISSION_COMPLETE == "Mission complete"

HEADER_ROWS == 3

-----------------------------------------------------------------------------
(* Generic helpers *)

Range(s) == { s[i] : i \in 1..Len(s) }

RECURSIVE SumSeq(_)
SumSeq(s) == IF s = << >> THEN 0 ELSE Head(s) + SumSeq(Tail(s))

RECURSIVE FilterSeq(_, _)
FilterSeq(s, keep) ==
  IF s = << >> THEN << >>
  ELSE IF Head(s) \in keep THEN <<Head(s)>> \o FilterSeq(Tail(s), keep)
       ELSE FilterSeq(Tail(s), keep)

(* np.sqrt on a scaled square: floor of the integer square root *)
RECURSIVE ISqrtBS(_, _, _)
ISqrtBS(n, lo, hi) ==
  IF lo >= hi THEN lo
  ELSE LET mid == (lo + hi + 1) \div 2
       IN  IF mid * mid <= n THEN ISqrtBS(n, mid, hi)
           ELSE ISqrtBS(n, lo, mid - 1)

Sqrt(n) == ISqrtBS(n, 0, IF n < 46340 THEN n ELSE 46340)

(* float division a / b of two scaled numbers *)
FDiv(a, b) == (a * Scale) \div b

(* np.mean of a non-empty list of scaled numbers *)
Mean(s) == SumSeq(s) \div Len(s)

(* Python's ordering of the str values the model uses (groupby sorts keys) *)
STR_ORDER ==
  << "Automobile shop", "Bank", "Fire Station", "Gas Station", "High School",
     "Mission complete", "Pawn Shop", "Pizzeria", "Police station ",
     "Quattroki Restaurant" >>

(* Python's tuple ordering of two (X, Z) keys *)
PosLess(p, q) == p[1] < q[1] \/ (p[1] = q[1] /\ p[2] < q[2])

Pos(r) == <<r.X, r.Z>>

-----------------------------------------------------------------------------
(* Inputs: the rows of one Saved_data_*.csv *)

Positions == { <<START_X, START_Z>>, <<5000, 5000>>, <<-3000, 0>> }

Times == { t * Scale : t \in 0..MaxTime }

RawRow(n, p, t) == [Target_Name |-> n, X |-> p[1], Z |-> p[2], Time |-> t]

(* "Bank" is the destination whose path is explored over every position;   *)
(* the rows of the other labels (a second canonical destination that sorts *)
(* differently in TARGET_ORDER and in str order, a name that is not in     *)
(* TARGET_ORDER, and the sentinel) interleave with it at the start.        *)
OtherLabels == {"Fire Station", "Gas Station", MISSION_COMPLETE}

RawRows ==
  { RawRow("Bank", p, t) : p \in Positions, t \in Times }
    \cup { RawRow(n, <<START_X, START_Z>>, t) : n \in OtherLabels, t \in Times }

MetaRow == [Target_Name |-> "", X |-> 0, Z |-> 0, Time |-> 0]

Metadata == [i \in 1..HEADER_ROWS |-> MetaRow]

(* the session of the worked example: start x3, (5,5) x2, (5,5), start *)
ExampleRows ==
  LET s == <<START_X, START_Z>>
      q == <<5000, 5000>>
      ps == <<s, s, s, q, q, q, s>>
  IN  [i \in 1..7 |-> RawRow("Bank", ps[i], (i - 1) * Scale)]

Sessions ==
  UNION { [1..n -> RawRows] : n \in 0..MaxLen } \cup {ExampleRows}

-----------------------------------------------------------------------------
(* process_raw_data *)

(* df.iloc[3:].reset_index(drop=True) *)
SkipHeader(f) == SubSeq(f, HEADER_ROWS + 1, Len(f))

(* faulty variant: the difference is not clipped at zero *)
Time_Diff_Unclipped(rows, i) ==
  IF i = 1 THEN 0 ELSE rows[i].Time - rows[i-1].Time

(* df['Time'].diff().clip(lower=0).fillna(0) *)
Time_Diff(rows, i) ==
  IF i = 1 THEN 0
  ELSE LET d == rows[i].Time - rows[i-1].Time
       IN  IF d < 0 THEN 0 ELSE d

WithTimeDiff(rows) ==
  [i \in 1..Len(rows) |->
     [Target_Name |-> rows[i].Target_Name, X |-> rows[i].X, Z |-> rows[i].Z,
      Time |-> rows[i].Time, Time_Diff |-> Time_Diff(rows, i)]]

(* faulty variant: the sentinel rows are kept *)
RemoveMissionComplete_KeepAll(rows) == rows

(* df[df['Target_Name'] != 'Mission complete'] *)
RemoveMissionComplete(rows) ==
  FilterSeq(rows, { r \in Range(rows) : r.Target_Name # MISSION_COMPLETE })

process_raw_data(f) == RemoveMissionComplete(WithTimeDiff(SkipHeader(f)))

-----------------------------------------------------------------------------
(* calculate_all_metrics: the per-group metrics *)

Column(g, col) == [i \in 1..Len(g) |-> g[i][col]]

(* data.groupby('Target_Name'): the keys, sorted *)
GroupKeys(d) == FilterSeq(STR_ORDER, { r.Target_Name : r \in Range(d) })

Group(d, name) == FilterSeq(d, { r \in Range(d) : r.Target_Name = name })

Total_Time(g) == SumSeq(Column(g, "Time_Diff"))

at_start(r) == r.X = START_X /\ r.Z = START_Z

(* faulty variant: the lapsed times are summed instead of their differences *)
Orientation_Time_OfTime(g) ==
  SumSeq(Column(FilterSeq(g, { r \in Range(g) : at_start(r) }), "Time"))

Orientation_Time(g) ==
  SumSeq(Column(FilterSeq(g, { r \in Range(g) : at_start(r) }), "Time_Diff"))

(* faulty variant: the operands of the subtraction swapped *)
Navigation_Time_Swapped(total, orientation) == orientation - total

Navigation_Time(total, orientation) == total - orientation

(* DataFrame.drop_duplicates(subset=['X', 'Z'], keep='first') *)
RECURSIVE DropDuplicatesFrom(_, _)
DropDuplicatesFrom(g, seen) ==
  IF g = << >> THEN << >>
  ELSE IF Pos(Head(g)) \in seen THEN DropDuplicatesFrom(Tail(g), seen)
       ELSE <<Head(g)>> \o DropDuplicatesFrom(Tail(g), seen \cup {Pos(Head(g))})

(* faulty variant: only a run of equal consecutive positions is collapsed *)
RECURSIVE DropConsecutiveFrom(_, _)
DropConsecutiveFrom(g, prev) ==
  IF g = << >> THEN << >>
  ELSE IF <<Pos(Head(g))>> = prev THEN DropConsecutiveFrom(Tail(g), prev)
       ELSE <<Head(g)>> \o DropConsecutiveFrom(Tail(g), <<Pos(Head(g))>>)

drop_consecutive_duplicates(g) == DropConsecutiveFrom(g, << >>)

drop_duplicates(g) == DropDuplicatesFrom(g, {})

(* np.sqrt(dx**2 + dz**2) of two (X, Z) pairs *)
Dist(p, q) == Sqrt((q[1] - p[1]) * (q[1] - p[1]) + (q[2] - p[2]) * (q[2] - p[2]))

(* faulty variant: every step between consecutive samples is summed *)
Distance_EveryStep(g) ==
  SumSeq([i \in 1..(Len(g) - 1) |-> Dist(Pos(g[i]), Pos(g[i + 1]))])

(* unique_pos[...].diff() leaves NaN in row 1, which .sum() skips *)
Distance(g) ==
  LET unique_pos == drop_duplicates(g)
  IN  SumSeq([i \in 1..(Len(unique_pos) - 1) |->
                Dist(Pos(unique_pos[i]), Pos(unique_pos[i + 1]))])

(* faulty variant: the zero-time branch falls back to the distance *)
Speed_NoZeroBranch(distance, navigation) ==
  IF navigation > 0 THEN FDiv(distance, navigation) ELSE distance

Speed(distance, navigation) ==
  IF navigation > 0 THEN FDiv(distance, navigation) ELSE 0

(* group.groupby(['X', 'Z']): the keys, sorted as tuples *)
RECURSIVE SortPos(_)
SortPos(S) ==
  IF S = {} THEN << >>
  ELSE LET m == CHOOSE p \in S : \A q \in S \ {p} : PosLess(p, q)
       IN  <<m>> \o SortPos(S \ {m})

PosKeys(g) == SortPos({ Pos(r) : r \in Range(g) })

(* pos_group['Time'].iloc[-1] - pos_group['Time'].iloc[0] *)
Dwell(g, p) ==
  LET pos_group == FilterSeq(g, { r \in Range(g) : Pos(r) = p })
  IN  pos_group[Len(pos_group)].Time - pos_group[1].Time

dwell_times(g) == LET keys == PosKeys(g) IN [i \in 1..Len(keys) |-> Dwell(g, keys[i])]

(* faulty variant: every bucket is averaged, the first one included *)
Mean_Dwell_AllBuckets(g) == Mean(dwell_times(g))

Mean_Dwell(g) ==
  LET dwells == dwell_times(g)
  IN  IF Len(dwells) > 1 THEN Mean(Tail(dwells)) ELSE 0

(* faulty variant: the rows are counted without drop_duplicates() *)
Teleportations_AllRows(g) == Len(g)

(* group[['X', 'Z']].drop_duplicates().shape[0] *)
Teleportations(g) == Len(drop_duplicates(g))

(* the iterrows() loop with the seen set *)
RECURSIVE UniquePositionsFrom(_, _, _)
UniquePositionsFrom(g, unique, seen) ==
  IF g = << >> THEN unique
  ELSE LET pos == Pos(Head(g))
       IN  IF pos \notin seen
           THEN UniquePositionsFrom(Tail(g), Append(unique, pos), seen \cup {pos})
           ELSE UniquePositionsFrom(Tail(g), unique, seen)

unique_positions(g) == UniquePositionsFrom(g, << >>, {})

(* faulty variant: every hop is measured from the first position *)
teleport_distances_FromFirst(up) ==
  [i \in 1..(Len(up) - 1) |-> Dist(up[1], up[i + 1])]

teleport_distances(up) == [i \in 1..(Len(up) - 1) |-> Dist(up[i], up[i + 1])]

Mean_Teleport_Distance(g) ==
  LET up == unique_positions(g)
  IN  IF Len(up) > 1 THEN Mean(teleport_distances(up)) ELSE 0

Metrics(name, g) ==
  LET total == Total_Time(g)
      orientation == Orientation_Time(g)
      navigation == Navigation_Time(total, orientation)
      distance == Distance(g)
  IN  [Target_Name |-> name,
       Total_Time |-> total,
       Orientation_Time |-> orientation,
       Navigation_Time |-> navigation,
       Distance |-> distance,
       Speed |-> Speed(distance, navigation),
       Mean_Dwell |-> Mean_Dwell(g),
       Teleportations |-> Teleportations(g),
       Mean_Teleport_Distance |-> Mean_Teleport_Distance(g)]

-----------------------------------------------------------------------------
(* calculate_all_metrics: the table *)

(* the results list, one dict per group in groupby order *)
ResultsList(d) ==
  LET keys == GroupKeys(d)
  IN  [i \in 1..Len(keys) |-> Metrics(keys[i], Group(d, keys[i]))]

(* faulty variant: the rows stay in the order of the results list *)
available_targets_ListOrder(rs) ==
  LET names == [i \in 1..Len(rs) |-> rs[i].Target_Name]
  IN  FilterSeq(names, Range(TARGET_ORDER))

(* [t for t in TARGET_ORDER if t in df_results.index] *)
available_targets(rs) == FilterSeq(TARGET_ORDER, { r.Target_Name : r \in Range(rs) })

(* df_results.reindex(available_targets) *)
Reindex(rs, targets) ==
  [i \in 1..Len(targets) |-> CHOOSE r \in Range(rs) : r.Target_Name = targets[i]]

(* pd.DataFrame([]) has no 'Target_Name' column: set_index raises KeyError. *)
(* The results list has one dict per group key, so it is empty exactly     *)
(* when there is no key.                                                   *)
SetIndexFails(keys) == keys = << >>

calculate_all_metrics(d) ==
  LET rs == ResultsList(d) IN Reindex(rs, available_targets(rs))

-----------------------------------------------------------------------------
(* Result tables as they are stored in the csv files.  A cell is << >> when *)
(* it is empty (NaN) and <<v>> when it holds the number v.                  *)

NaN == << >>

Num(v) == <<v>>

(* a file that does not exist, and a csv file holding the rows of a frame *)
Missing == [exists |-> FALSE, rows |-> << >>]

CsvFile(rows) == [exists |-> TRUE, rows |-> rows]

(* get_participant_ids: the sorted participant folders of the data folder *)
participant_ids == << "BNC01", "BNC39" >>

(* range(1, 4) *)
BLOCKS == << 1, 2, 3 >>

(* the (pid, block_num) pairs in the order of the two nested loops *)
KeySeq ==
  [i \in 1..(Len(participant_ids) * Len(BLOCKS)) |->
     << participant_ids[((i - 1) \div Len(BLOCKS)) + 1],
        BLOCKS[((i - 1) % Len(BLOCKS)) + 1] >>]

Keys == Range(KeySeq)

(* metric_cols of average_metrics *)
METRIC_COLS ==
  << "Total_Time", "Orientation_Time", "Navigation_Time", "Distance", "Speed",
     "Mean_Dwell", "Teleportations", "Mean_Teleport_Distance" >>

(* one row of a b{n}_results.csv *)
BlockRow(name, total, orientation, dwell) ==
  [Target_Name |-> name,
   Total_Time |-> Num(total),
   Orientation_Time |-> Num(orientation),
   Navigation_Time |-> Num(total - orientation),
   Distance |-> Num(6 * Scale),
   Speed |-> Num(Speed(6 * Scale, total - orientation)),
   Mean_Dwell |-> dwell,
   Teleportations |-> Num(2),
   Mean_Teleport_Distance |-> Num(6 * Scale)]

(* the b{n}_results.csv contents explored: every cell filled; one empty    *)
(* cell in one row; a column with no filled cell                           *)
TableFull ==
  << BlockRow("Bank", 4 * Scale, 1 * Scale, Num(2 * Scale)),
     BlockRow("Pawn Shop", 6 * Scale, 2 * Scale, Num(1 * Scale)) >>

TableGap ==
  << BlockRow("Bank", 5 * Scale, 0, NaN),
     BlockRow("Pawn Shop", 3 * Scale, 3 * Scale, Num(3 * Scale)) >>

TableOne == << BlockRow("Pawn Shop", 2 * Scale, 1 * Scale, NaN) >>

BlockFileContents ==
  { Missing, CsvFile(TableFull), CsvFile(TableGap), CsvFile(TableOne) }

(* the filled cells of a column, in row order *)
RECURSIVE DropNa(_)
DropNa(cells) ==
  IF cells = << >> THEN << >>
  ELSE IF Head(cells) = NaN THEN DropNa(Tail(cells))
       ELSE <<Head(cells)[1]>> \o DropNa(Tail(cells))

(* Series.mean(): empty cells are skipped; NaN when no cell is filled *)
SeriesMean(cells) ==
  LET valid == DropNa(cells)
  IN  IF valid = << >> THEN NaN ELSE Num(Mean(valid))

(* df.insert(0, 'Participant', pid); df.insert(1, 'Block_Num', block_num) *)
Tagged(row, key) ==
  [c \in DOMAIN row \cup {"Participant", "Block_Num"} |->
     IF c = "Participant" THEN key[1]
     ELSE IF c = "Block_Num" THEN key[2]
     ELSE row[c]]

TaggedTable(table, key) == [i \in 1..Len(table) |-> Tagged(table[i], key)]

(* faulty variant: the loops stop at the first file that is not found *)
RECURSIVE merge_until_missing(_, _)
merge_until_missing(files, keys) ==
  IF keys = << >> THEN << >>
  ELSE IF ~files[Head(keys)].exists THEN << >>
       ELSE TaggedTable(files[Head(keys)].rows, Head(keys))
              \o merge_until_missing(files, Tail(keys))

(* merge_block_results: the concatenation of the frames of the files found *)
RECURSIVE merge_block_results(_, _)
merge_block_results(files, keys) ==
  IF keys = << >> THEN << >>
  ELSE IF ~files[Head(keys)].exists THEN merge_block_results(files, Tail(keys))
       ELSE TaggedTable(files[Head(keys)].rows, Head(keys))
              \o merge_block_results(files, Tail(keys))

(* the "Warning: ... not found" lines of a loop over the keys *)
MissingWarnings(files, keys, step) ==
  LET missing == FilterSeq(keys, { k \in Range(keys) : ~files[k].exists })
  IN  [i \in 1..Len(missing) |-> <<step, missing[i]>>]

(* faulty variant: a row with an empty cell is left out of every mean *)
AverageRow_DropRows(table, key) ==
  LET full == FilterSeq(table,
                { r \in Range(table) : \A c \in Range(METRIC_COLS) : r[c] # NaN })
  IN  [c \in Range(METRIC_COLS) \cup {"Participant", "Block_Num"} |->
         IF c = "Participant" THEN key[1]
         ELSE IF c = "Block_Num" THEN key[2]
         ELSE SeriesMean(Column(full, c))]

(* the row dict of one results file: row[col] = df[col].mean() *)
AverageRow(table, key) ==
  [c \in Range(METRIC_COLS) \cup {"Participant", "Block_Num"} |->
     IF c = "Participant" THEN key[1]
     ELSE IF c = "Block_Num" THEN key[2]
     ELSE SeriesMean(Column(table, c))]

(* average_metrics: one row per file found *)
RECURSIVE average_metrics(_, _)
average_metrics(files, keys) ==
  IF keys = << >> THEN << >>
  ELSE IF ~files[Head(keys)].exists THEN average_metrics(files, Tail(keys))
       ELSE <<AverageRow(files[Head(keys)].rows, Head(keys))>>
              \o average_metrics(files, Tail(keys))

(* a - b on cells; NaN when either is empty *)
CellSub(a, b) == IF a = NaN \/ b = NaN THEN NaN ELSE Num(a[1] - b[1])

(* the condition mask of fix_erroneous_data *)
FixCondition(row, call) ==
  /\ row["Participant"] = call.participant
  /\ row["Block_Num"] = call.block_num
  /\ row["Target_Name"] = call.target_name

(* faulty variant: the cell is emptied before Total_Time is adjusted *)
FixMerged_NullFirst(m, call) ==
  [i \in 1..Len(m) |->
     IF FixCondition(m[i], call)
     THEN [c \in DOMAIN m[i] |->
             IF c = call.column_to_fix THEN NaN
             ELSE IF c = "Total_Time" /\ call.column_to_fix = "Orientation_Time"
                  THEN CellSub(m[i]["Total_Time"], NaN)
                  ELSE m[i][c]]
     ELSE m[i]]

(* df_merged after the Total_Time adjustment and the NaN assignment *)
FixMerged(m, call) ==
  LET matching == FilterSeq(m, { r \in Range(m) : FixCondition(r, call) })
      old_orientation == matching[1]["Orientation_Time"]
  IN  [i \in 1..Len(m) |->
         IF FixCondition(m[i], call)
         THEN [c \in DOMAIN m[i] |->
                 IF c = call.column_to_fix THEN NaN
                 ELSE IF c = "Total_Time" /\ call.column_to_fix = "Orientation_Time"
                      THEN CellSub(m[i]["Total_Time"], old_orientation)
                      ELSE m[i][c]]
         ELSE m[i]]

(* df_averaged after the participant's average is recalculated *)
FixAveraged(a, m, call) ==
  LET participant_data ==
        FilterSeq(m, { r \in Range(m) : r["Participant"] = call.participant })
      valid_values == DropNa(Column(participant_data, call.column_to_fix))
  IN  IF Len(valid_values) > 0
      THEN [i \in 1..Len(a) |->
              IF a[i]["Participant"] = call.participant
              THEN [c \in DOMAIN a[i] |->
                      IF c = call.column_to_fix THEN Num(Mean(valid_values))
                      ELSE a[i][c]]
              ELSE a[i]]
      ELSE a

(* the corrections explored *)
FixCalls ==
  [participant : Range(participant_ids), block_num : Range(BLOCKS),
   target_name : {"Bank", "Pawn Shop"},
   column_to_fix : {"Orientation_Time", "Mean_Dwell"}]

NoCall == [participant |-> "", block_num |-> 0, target_name |-> "",
           column_to_fix |-> ""]

-----------------------------------------------------------------------------
(* The batch runner: main and process_data_folder                          *)

MaxSteps == 2

MaxBad == 2

(* --data-folders *)
DATA_FOLDERS == << "YA_Data", "OA_Data" >>

(* get_participant_ids of each data folder *)
FolderParticipants(folder) ==
  IF folder = "YA_Data" THEN << "BNC01" >> ELSE << "BNC39" >>

(* the sessions of a folder in the order of the two nested loops *)
FolderSessions(folder) ==
  FilterSeq(KeySeq, { k \in Keys : k[1] \in Range(FolderParticipants(folder)) })

(* the steps of process_data_folder in the order of its if statements *)
PIPELINE == << "metrics", "merge", "average", "trajectories", "plots" >>

POST_PROCESS == "post-process"

(* the choices of --steps *)
STEP_CHOICES == Range(PIPELINE) \cup {POST_PROCESS}

(* the default of --steps *)
DEFAULT_STEPS == PIPELINE

(* the states a Saved_data file can be in: parsable, absent, or read but   *)
(* with a required column absent or not numeric                            *)
SessionStates == { "ok", "missing", "malformed" }

(* the data folders explored: at most MaxBad session files absent or       *)
(* malformed                                                               *)
SessionStatuses ==
  { st \in [Keys -> SessionStates] :
      Cardinality({ k \in Keys : st[k] # "ok" }) <= MaxBad }

(* the --steps lists explored: every list of at most MaxSteps different    *)
(* steps, the default, and all six steps given backwards                   *)
StepLists ==
  { l \in UNION { [1..n -> STEP_CHOICES] : n \in 1..MaxSteps } :
      \A i, j \in DOMAIN l : i # j => l[i] # l[j] }
  \cup { DEFAULT_STEPS,
         << POST_PROCESS, "plots", "trajectories", "average", "merge", "metrics" >> }

(* non_post_steps of main *)
non_post_steps(steps) == FilterSeq(steps, Range(steps) \ {POST_PROCESS})

(* faulty variant: the steps run in the order they were given *)
requested_as_given(steps) == non_post_steps(steps)

(* the steps process_data_folder runs: each "if step in steps", in turn *)
requested_steps(steps) == FilterSeq(PIPELINE, Range(steps))

(* what one run executes: for each folder its steps, then post-process *)
RECURSIVE FolderPlan(_, _)
FolderPlan(folders, steps) ==
  IF folders = << >> THEN << >>
  ELSE [i \in 1..Len(requested_steps(steps)) |->
          << Head(folders), requested_steps(steps)[i] >>]
         \o FolderPlan(Tail(folders), steps)

Plan(steps) ==
  FolderPlan(DATA_FOLDERS, steps)
    \o (IF POST_PROCESS \in Range(steps) THEN << <<"base", POST_PROCESS>> >>
        ELSE << >>)

(* the sessions before the first one whose file raises something other    *)
(* than FileNotFoundError                                                 *)
RECURSIVE BeforeMalformed(_, _)
BeforeMalformed(sessions, status) ==
  IF sessions = << >> \/ status[Head(sessions)] = "malformed" THEN << >>
  ELSE <<Head(sessions)>> \o BeforeMalformed(Tail(sessions), status)

Raises(sessions, status) ==
  \E k \in Range(sessions) : status[k] = "malformed"

Parsable(sessions, status) ==
  { k \in Range(sessions) : status[k] = "ok" }

-----------------------------------------------------------------------------
(* The run of one session: calculate_block_metrics *)

(* no pipeline run is in progress *)
RunIdle ==
  /\ runSteps = << >>
  /\ sessionStatus = [k \in Keys |-> "ok"]
  /\ runLog = << >>
  /\ runOut = [s \in Range(PIPELINE) |-> {}]
  /\ runPos = 0
  /\ runPc = "idle"

(* the result files are not part of the run of one session *)
AggIdle ==
  /\ blockFiles = [k \in Keys |-> Missing]
  /\ merged = Missing
  /\ averaged = Missing
  /\ warnings = << >>
  /\ fixCall = NoCall
  /\ aggPc = "idle"

Init ==
  /\ file \in { Metadata \o s : s \in Sessions }
  /\ data = << >>
  /\ results = << >>
  /\ err = "none"
  /\ pc = "read"
  /\ AggIdle
  /\ RunIdle

ProcessRawData ==
  /\ pc = "read"
  /\ data' = process_raw_data(file)
  /\ pc' = "processed"
  /\ UNCHANGED <<file, results, err>>
  /\ UNCHANGED aggVars
  /\ UNCHANGED runVars

CalculateAllMetrics ==
  /\ pc = "processed"
  /\ IF SetIndexFails(GroupKeys(data))
     THEN /\ err' = "KeyError"
          /\ pc' = "failed"
          /\ UNCHANGED results
     ELSE /\ results' = calculate_all_metrics(data)
          /\ pc' = "done"
          /\ UNCHANGED err
  /\ UNCHANGED <<file, data>>
  /\ UNCHANGED aggVars
  /\ UNCHANGED runVars

Next == ProcessRawData \/ CalculateAllMetrics

Spec == Init /\ [][Next]_vars

-----------------------------------------------------------------------------
(* The result files of one data folder: run_merge, run_average and the     *)
(* correction of post_analysis_cleanup                                     *)

(* no session is processed while the result files are aggregated *)
SessionIdle ==
  /\ file = Metadata
  /\ data = << >>
  /\ results = << >>
  /\ err = "none"
  /\ pc = "idle"

InitAgg ==
  /\ SessionIdle
  /\ blockFiles \in [Keys -> BlockFileContents]
  /\ merged = Missing
  /\ averaged = Missing
  /\ warnings = << >>
  /\ fixCall = NoCall
  /\ aggPc = "merge"
  /\ RunIdle

(* run_merge: merged_results.csv is written unless the frame is empty *)
RunMerge ==
  /\ aggPc = "merge"
  /\ LET merged_df == merge_block_results(blockFiles, KeySeq)
     IN  merged' = IF merged_df = << >> THEN merged ELSE CsvFile(merged_df)
  /\ warnings' = warnings \o MissingWarnings(blockFiles, KeySeq, "merge")
  /\ aggPc' = "average"
  /\ UNCHANGED <<blockFiles, averaged, fixCall>>
  /\ UNCHANGED sessionVars
  /\ UNCHANGED runVars

(* run_average: averaged_results.csv is written unless the frame is empty *)
RunAverage ==
  /\ aggPc = "average"
  /\ LET averaged_df == average_metrics(blockFiles, KeySeq)
     IN  averaged' = IF averaged_df = << >> THEN averaged ELSE CsvFile(averaged_df)
  /\ warnings' = warnings \o MissingWarnings(blockFiles, KeySeq, "average")
  /\ aggPc' = "fix"
  /\ UNCHANGED <<blockFiles, merged, fixCall>>
  /\ UNCHANGED sessionVars
  /\ UNCHANGED runVars

(* fix_erroneous_data, called when both files exist *)
FixErroneousData ==
  /\ aggPc = "fix"
  /\ merged.exists /\ averaged.exists
  /\ \E call \in FixCalls :
       /\ fixCall' = call
       /\ IF \E i \in 1..Len(merged.rows) : FixCondition(merged.rows[i], call)
          THEN LET df_merged == FixMerged(merged.rows, call)
               IN  /\ merged' = CsvFile(df_merged)
                   /\ averaged' =
                        CsvFile(FixAveraged(averaged.rows, df_merged, call))
          ELSE UNCHANGED <<merged, averaged>>
  /\ aggPc' = "end"
  /\ UNCHANGED <<blockFiles, warnings>>
  /\ UNCHANGED sessionVars
  /\ UNCHANGED runVars

(* post_analysis_cleanup with a result file missing: nothing is corrected *)
SkipFix ==
  /\ aggPc = "fix"
  /\ ~merged.exists \/ ~averaged.exists
  /\ aggPc' = "end"
  /\ UNCHANGED <<blockFiles, merged, averaged, warnings, fixCall>>
  /\ UNCHANGED sessionVars
  /\ UNCHANGED runVars

NextAgg == RunMerge \/ RunAverage \/ FixErroneousData \/ SkipFix

SpecAgg == InitAgg /\ [][NextAgg]_vars

-----------------------------------------------------------------------------
(* One run of run_analysis.py over the data folders                        *)

InitRun ==
  /\ SessionIdle
  /\ AggIdle
  /\ runSteps \in StepLists
  /\ sessionStatus \in SessionStatuses
  /\ runLog = << >>
  /\ runOut = [s \in Range(PIPELINE) |-> {}]
  /\ runPos = 1
  /\ runPc = "running"

(* the (folder, step) the run is about to execute *)
AtStep(step) ==
  /\ runPc = "running"
  /\ runPos <= Len(Plan(runSteps))
  /\ Plan(runSteps)[runPos][2] = step

Folder == Plan(runSteps)[runPos][1]

(* the step returned: the run goes on with the next one *)
Returned(outputs) ==
  /\ runOut' = [runOut EXCEPT ![Plan(runSteps)[runPos][2]] = @ \cup outputs]
  /\ runLog' = Append(runLog, Plan(runSteps)[runPos])
  /\ runPos' = runPos + 1
  /\ runPc' = "running"

(* the step raised: nothing catches it and the program ends *)
Raised(outputs) ==
  /\ runOut' = [runOut EXCEPT ![Plan(runSteps)[runPos][2]] = @ \cup outputs]
  /\ runLog' = Append(runLog, Plan(runSteps)[runPos])
  /\ runPos' = runPos
  /\ runPc' = "crashed"

RunFrame ==
  /\ UNCHANGED <<runSteps, sessionStatus>>
  /\ UNCHANGED sessionVars
  /\ UNCHANGED aggVars

(* run_metrics_calculation: FileNotFoundError and Exception are both caught *)
run_metrics_calculation ==
  /\ AtStep("metrics")
  /\ Returned(Parsable(FolderSessions(Folder), sessionStatus))
  /\ RunFrame

(* run_merge: the results files present are the ones the metrics step wrote *)
run_merge ==
  /\ AtStep("merge")
  /\ Returned(runOut["metrics"] \cap Range(FolderSessions(Folder)))
  /\ RunFrame

(* run_average *)
run_average ==
  /\ AtStep("average")
  /\ Returned(runOut["metrics"] \cap Range(FolderSessions(Folder)))
  /\ RunFrame

(* run_trajectories: extract_target_trajectories catches FileNotFoundError *)
(* only, and writes its files after the loop                               *)
run_trajectories ==
  /\ AtStep("trajectories")
  /\ IF Raises(FolderSessions(Folder), sessionStatus)
     THEN Raised({})
     ELSE Returned(Parsable(FolderSessions(Folder), sessionStatus))
  /\ RunFrame

(* run_plots: generate_participant_movement_plots catches FileNotFoundError *)
(* only, and writes each plot inside the loop                               *)
run_plots ==
  /\ AtStep("plots")
  /\ IF Raises(FolderSessions(Folder), sessionStatus)
     THEN Raised(Parsable(BeforeMalformed(FolderSessions(Folder), sessionStatus),
                          sessionStatus))
     ELSE Returned(Parsable(FolderSessions(Folder), sessionStatus))
  /\ RunFrame

(* run_post_process, after the loop over the data folders *)
run_post_process ==
  /\ AtStep(POST_PROCESS)
  /\ runLog' = Append(runLog, Plan(runSteps)[runPos])
  /\ runPos' = runPos + 1
  /\ UNCHANGED <<runOut, runPc>>
  /\ RunFrame

(* "Analysis complete!" *)
AnalysisComplete ==
  /\ runPc = "running"
  /\ runPos > Len(Plan(runSteps))
  /\ runPc' = "finished"
  /\ UNCHANGED <<runLog, runOut, runPos>>
  /\ RunFrame

NextRun ==
  \/ run_metrics_calculation
  \/ run_merge
  \/ run_average
  \/ run_trajectories
  \/ run_plots
  \/ run_post_process
  \/ AnalysisComplete

SpecRun == InitRun /\ [][NextRun]_vars

-----------------------------------------------------------------------------
(* Vocabulary of the properties *)

(* the rows of the returned table *)
Rows == IF pc = "done" THEN Range(results) ELSE {}

(* the destination group a row of the table was computed from *)
GroupOf(r) == Group(data, r.Target_Name)

DistinctPositions(g) == { Pos(x) : x \in Range(g) }

(* the indices of the samples that are the first at their position *)
FirstVisitIdx(g) ==
  { i \in 1..Len(g) : \A j \in 1..(i - 1) : Pos(g[j]) # Pos(g[i]) }

(* the positions of a group in order of first appearance *)
FirstVisits(g) ==
  LET I == FirstVisitIdx(g)
      nth(k) == CHOOSE i \in I : Cardinality({ j \in I : j <= i }) = k
  IN  [k \in 1..Cardinality(I) |-> Pos(g[nth(k)])]

(* the hops between consecutive entries of a list of positions *)
Hops(ps) == [k \in 1..(Len(ps) - 1) |-> Dist(ps[k], ps[k + 1])]

PathLength(ps) == SumSeq(Hops(ps))

(* a group with sample i repeated right after itself *)
RepeatAt(g, i) == SubSeq(g, 1, i) \o <<g[i]>> \o SubSeq(g, i + 1, Len(g))

(* a group with samples i and j exchanged *)
Swap(g, i, j) ==
  [k \in 1..Len(g) |-> IF k = i THEN g[j] ELSE IF k = j THEN g[i] ELSE g[k]]

-----------------------------------------------------------------------------
(* C1: in every row of the table, total time is orientation time plus      *)
(* navigation time.                                                        *)
C1_TimeSplit ==
  \A r \in Rows : r.Total_Time = r.Orientation_Time + r.Navigation_Time

(* a group that spent time both at the start and away from it *)
C1_Witness ==
  \E r \in Rows : r.Orientation_Time > 0 /\ r.Navigation_Time > 0

(* C2: distance is the length of the path through the positions in order   *)
(* of first appearance; a return to a visited position adds nothing; it is *)
(* never negative and is zero for a group at one position.                 *)
C2_Distance ==
  \A r \in Rows :
    /\ r.Distance = PathLength(FirstVisits(GroupOf(r)))
    /\ r.Distance >= 0
    /\ Cardinality(DistinctPositions(GroupOf(r))) = 1 => r.Distance = 0

(* a group that leaves a position and comes back to it *)
C2_Witness ==
  \E r \in Rows :
    LET g == GroupOf(r)
    IN  /\ r.Distance > 0
        /\ \E i, j, k \in 1..Len(g) :
             i < j /\ j < k /\ Pos(g[i]) = Pos(g[k]) /\ Pos(g[i]) # Pos(g[j])

(* C3: the teleport count is the number of distinct positions of the       *)
(* group, and repeating a sample or exchanging two samples leaves it       *)
(* unchanged.                                                              *)
C3_TeleportCount ==
  \A r \in Rows :
    LET g == GroupOf(r)
    IN  /\ r.Teleportations = Cardinality(DistinctPositions(g))
        /\ \A i \in 1..Len(g) : Teleportations(RepeatAt(g, i)) = r.Teleportations
        /\ \A i, j \in 1..Len(g) :
             i < j => Teleportations(Swap(g, i, j)) = r.Teleportations

(* a group with a repeated position and more than one position *)
C3_Witness ==
  \E r \in Rows :
    /\ r.Teleportations > 1
    /\ Len(GroupOf(r)) > r.Teleportations

(* C4: speed is zero when the navigation time is not positive, whatever    *)
(* the distance, and distance / navigation time otherwise; no fault.       *)
C4_Speed ==
  /\ pc = "done" => err = "none"
  /\ \A r \in Rows :
       /\ r.Navigation_Time <= 0 => r.Speed = 0
       /\ r.Navigation_Time > 0 => r.Speed = FDiv(r.Distance, r.Navigation_Time)

(* a group that moved in no navigation time *)
C4_Witness ==
  \E r \in Rows : r.Navigation_Time <= 0 /\ r.Distance > 0

-----------------------------------------------------------------------------
(* dwell of a group at a position: time of its last sample there minus     *)
(* time of its first sample there                                          *)
DwellAt(g, p) ==
  LET I == { i \in 1..Len(g) : Pos(g[i]) = p }
      first == CHOOSE i \in I : \A j \in I : i <= j
      last == CHOOSE i \in I : \A j \in I : j <= i
  IN  g[last].Time - g[first].Time

(* C5: with two or more positions, mean dwell averages the dwell of every  *)
(* position but the one encountered first in the group's sample order.     *)
C5_MeanDwellSkipsFirstEncountered ==
  \A r \in Rows :
    LET g == GroupOf(r)
        fv == FirstVisits(g)
    IN  Len(fv) >= 2 =>
          r.Mean_Dwell = Mean([k \in 1..(Len(fv) - 1) |-> DwellAt(g, fv[k + 1])])

(* C6: a group with fewer than two positions has mean dwell zero.          *)
C6_MeanDwellZero ==
  \A r \in Rows :
    Cardinality(DistinctPositions(GroupOf(r))) < 2 => r.Mean_Dwell = 0

(* a group that stayed at its only position for some time *)
C6_Witness ==
  \E r \in Rows :
    LET g == GroupOf(r)
    IN  /\ Cardinality(DistinctPositions(g)) = 1
        /\ DwellAt(g, Pos(g[1])) > 0

(* C7: mean teleport distance is the average hop between consecutive       *)
(* positions in order of first appearance, zero below two positions.       *)
C7_MeanTeleportDistance ==
  \A r \in Rows :
    LET fv == FirstVisits(GroupOf(r))
    IN  r.Mean_Teleport_Distance = IF Len(fv) < 2 THEN 0 ELSE Mean(Hops(fv))

(* a group with two hops *)
C7_Witness ==
  \E r \in Rows : r.Teleportations >= 3 /\ r.Mean_Teleport_Distance > 0

(* position of a name in TARGET_ORDER *)
CanonicalIndex(t) == CHOOSE i \in 1..Len(TARGET_ORDER) : TARGET_ORDER[i] = t

(* the destination names that occur in the data *)
Present == { x.Target_Name : x \in Range(data) }

(* C8: the table has one row per canonical destination present in the data *)
(* and no other row, in canonical order; a name outside the canonical list *)
(* gives no row and no error.                                              *)
C8_CanonicalRows ==
  /\ pc = "done" =>
       /\ \A t \in Present \cap Range(TARGET_ORDER) :
            Cardinality({ i \in 1..Len(results) : results[i].Target_Name = t }) = 1
       /\ \A i \in 1..Len(results) :
            results[i].Target_Name \in Present \cap Range(TARGET_ORDER)
       /\ \A i, j \in 1..Len(results) :
            i < j => CanonicalIndex(results[i].Target_Name)
                       < CanonicalIndex(results[j].Target_Name)
  /\ (pc \in {"done", "failed"} /\ Present # {}) => (pc = "done" /\ err = "none")

(* two canonical destinations and an unlisted one in the data *)
C8_Witness ==
  /\ pc = "done"
  /\ {"Fire Station", "Bank", "Gas Station"} \subseteq Present
  /\ Len(results) = 2

(* the worked example has been processed *)
ExampleDone == pc = "done" /\ file = Metadata \o ExampleRows

ExampleStart == <<START_X, START_Z>>
ExampleFar == <<5000, 5000>>

(* C9 as stated: the example gives three teleports, the position sequence  *)
(* start, (5,5), start, twice the hop as distance, the hop as mean.        *)
C9_ExampleAsStated ==
  ExampleDone =>
    /\ results[1].Teleportations = 3
    /\ unique_positions(GroupOf(results[1]))
         = <<ExampleStart, ExampleFar, ExampleStart>>
    /\ results[1].Distance = 2 * Dist(ExampleStart, ExampleFar)
    /\ results[1].Mean_Teleport_Distance = Dist(ExampleStart, ExampleFar)

(* C9 amended: the example gives two teleports, the position sequence      *)
(* start, (5,5), one hop as distance and that hop as mean.                 *)
C9_ExampleAmended ==
  ExampleDone =>
    /\ Len(results) = 1
    /\ results[1].Teleportations = 2
    /\ unique_positions(GroupOf(results[1])) = <<ExampleStart, ExampleFar>>
    /\ results[1].Distance = Dist(ExampleStart, ExampleFar)
    /\ results[1].Mean_Teleport_Distance = Dist(ExampleStart, ExampleFar)

C9_Witness == ExampleDone /\ results[1].Total_Time = 6 * Scale

-----------------------------------------------------------------------------
(* the k-th smallest element of a set of indices *)
Nth(I, k) == CHOOSE i \in I : Cardinality({ j \in I : j <= i }) = k

(* the rows of the session file below the metadata rows *)
SessionRows == SkipHeader(file)

(* lapsed time of session row i minus lapsed time of the row before it *)
RawDelta(i) == SessionRows[i].Time - SessionRows[i - 1].Time

(* the session rows that do not carry the sentinel label *)
NonSentinelIdx ==
  { i \in 1..Len(SessionRows) : SessionRows[i].Target_Name # MISSION_COMPLETE }

(* the session file has been normalized *)
Normalized == pc \in {"processed", "done", "failed"}

(* C15: the time delta of the first sample is 0 and that of sample i > 0   *)
(* is max(elapsed[i] - elapsed[i-1], 0); no delta is negative and a sample *)
(* with a negative raw delta stays in the normalized sequence.             *)
C15_TimeDelta ==
  Normalized =>
    /\ Len(data) = Cardinality(NonSentinelIdx)
    /\ \A k \in 1..Len(data) :
         LET i == Nth(NonSentinelIdx, k)
         IN  /\ data[k].Time_Diff >= 0
             /\ i = 1 => data[k].Time_Diff = 0
             /\ (i > 1 /\ RawDelta(i) >= 0) => data[k].Time_Diff = RawDelta(i)
             /\ (i > 1 /\ RawDelta(i) < 0) => data[k].Time_Diff = 0
             /\ data[k].Time = SessionRows[i].Time
             /\ Pos(data[k]) = Pos(SessionRows[i])
             /\ data[k].Target_Name = SessionRows[i].Target_Name

(* a sample whose lapsed time went backwards is in the normalized sequence *)
C15_Witness ==
  /\ Normalized
  /\ \E k \in 1..Len(data) :
       LET i == Nth(NonSentinelIdx, k)
       IN  i > 1 /\ RawDelta(i) < 0 /\ data[k].Time_Diff = 0

(* C16: no normalized sample carries the sentinel label, and the groups    *)
(* partition the normalized samples: each sample is in the one group of    *)
(* its label, and each group keeps the samples' relative order.            *)
C16_GroupsPartition ==
  Normalized =>
    LET keys == GroupKeys(data)
    IN  /\ \A k \in 1..Len(data) : data[k].Target_Name # MISSION_COMPLETE
        /\ \A k \in 1..Len(data) :
             Cardinality({ n \in 1..Len(keys) : keys[n] = data[k].Target_Name }) = 1
        /\ \A n \in 1..Len(keys) :
             LET g == Group(data, keys[n])
                 I == { k \in 1..Len(data) : data[k].Target_Name = keys[n] }
             IN  /\ Len(g) = Cardinality(I)
                 /\ \A m \in 1..Len(g) : g[m] = data[Nth(I, m)]

(* a session with a sentinel row between two different samples of a group *)
C16_Witness ==
  /\ Normalized
  /\ \E i, j, k \in 1..Len(SessionRows) :
       /\ i < j /\ j < k
       /\ SessionRows[j].Target_Name = MISSION_COMPLETE
       /\ SessionRows[i].Target_Name = SessionRows[k].Target_Name
       /\ SessionRows[i].Target_Name # MISSION_COMPLETE
       /\ SessionRows[i] # SessionRows[k]

(* C17: in every row of the table orientation time lies between 0 and      *)
(* total time, so navigation time is not negative.                         *)
C17_NavigationNotNegative ==
  \A r \in Rows :
    /\ 0 <= r.Orientation_Time
    /\ r.Orientation_Time <= r.Total_Time
    /\ r.Navigation_Time >= 0

(* a group with orientation time in a session whose clock went backwards *)
C17_Witness ==
  /\ \E r \in Rows : r.Orientation_Time > 0
  /\ \E i \in 2..Len(SessionRows) : RawDelta(i) < 0


-----------------------------------------------------------------------------
(* Properties of the result files                                          *)

(* the positions in KeySeq of the (participant, block) pairs with a file *)
ExistingKeyIdx == { i \in 1..Len(KeySeq) : blockFiles[KeySeq[i]].exists }

(* the rows held by the files of the pairs before position i *)
RECURSIVE RowsBefore(_)
RowsBefore(i) ==
  IF i = 1 THEN 0
  ELSE RowsBefore(i - 1) + Len(blockFiles[KeySeq[i - 1]].rows)

(* the sum of column c over the rows D of table t *)
RECURSIVE SumCells(_, _, _)
SumCells(t, c, D) ==
  IF D = {} THEN 0
  ELSE LET i == CHOOSE i \in D : TRUE
       IN  t[i][c][1] + SumCells(t, c, D \ {i})

(* the mean of column c over the rows of t in which it is filled *)
DefinedMean(t, c) ==
  LET D == { i \in 1..Len(t) : t[i][c] # NaN }
  IN  IF D = {} THEN NaN ELSE Num(SumCells(t, c, D) \div Cardinality(D))

(* C11: average_metrics gives, for each (participant, block) whose results  *)
(* file exists, exactly one row, in loop order, and each statistic of it is *)
(* the mean of that statistic over the rows of the file in which it is      *)
(* defined: a NaN removes the row from the mean of that field only and is   *)
(* not counted as zero.                                                     *)
C11_AverageSkipsNaN ==
  aggPc = "fix" =>
    IF ExistingKeyIdx = {} THEN ~averaged.exists
    ELSE /\ averaged.exists
         /\ Len(averaged.rows) = Cardinality(ExistingKeyIdx)
         /\ \A n \in 1..Len(averaged.rows) :
              LET k == KeySeq[Nth(ExistingKeyIdx, n)]
                  row == averaged.rows[n]
              IN  /\ row["Participant"] = k[1]
                  /\ row["Block_Num"] = k[2]
                  /\ \A c \in Range(METRIC_COLS) :
                       row[c] = DefinedMean(blockFiles[k].rows, c)

C11_Witness ==
  /\ aggPc = "fix"
  /\ \E n \in 1..Len(averaged.rows) :
       LET t == blockFiles[KeySeq[Nth(ExistingKeyIdx, n)]].rows
           row == averaged.rows[n]
       IN  \E i, j \in 1..Len(t) :
             /\ t[i]["Mean_Dwell"] = NaN
             /\ t[j]["Mean_Dwell"] # NaN
             /\ row["Mean_Dwell"] = t[j]["Mean_Dwell"]
             /\ row["Total_Time"] =
                  Num((t[i]["Total_Time"][1] + t[j]["Total_Time"][1]) \div 2)

(* C12: merge_block_results concatenates, in participant order and then     *)
(* block order, the rows of every results file that exists, each tagged     *)
(* with its participant and block; a missing file gives a warning and no    *)
(* rows, and the files after it are still merged.                           *)
C12_MergeConcatenates ==
  aggPc = "average" =>
    /\ IF RowsBefore(Len(KeySeq) + 1) = 0 THEN ~merged.exists
       ELSE /\ merged.exists
            /\ Len(merged.rows) = RowsBefore(Len(KeySeq) + 1)
    /\ \A i \in ExistingKeyIdx :
         \A j \in 1..Len(blockFiles[KeySeq[i]].rows) :
           LET src == blockFiles[KeySeq[i]].rows[j]
               r == merged.rows[RowsBefore(i) + j]
           IN  /\ DOMAIN r = DOMAIN src \cup {"Participant", "Block_Num"}
               /\ r["Participant"] = KeySeq[i][1]
               /\ r["Block_Num"] = KeySeq[i][2]
               /\ \A c \in DOMAIN src : r[c] = src[c]
    /\ Len(warnings) = Len(KeySeq) - Cardinality(ExistingKeyIdx)
    /\ \A i \in 1..Len(KeySeq) :
         (i \notin ExistingKeyIdx) <=>
           (\E w \in 1..Len(warnings) : warnings[w] = <<"merge", KeySeq[i]>>)

C12_Witness ==
  /\ aggPc = "average"
  /\ merged.exists
  /\ \E i, j, k \in 1..Len(KeySeq) :
       /\ i < j /\ j < k
       /\ i \in ExistingKeyIdx /\ j \notin ExistingKeyIdx /\ k \in ExistingKeyIdx
       /\ \E w \in 1..Len(warnings) : warnings[w] = <<"merge", KeySeq[j]>>
       /\ \E a, b \in 1..Len(merged.rows) :
            /\ a < b
            /\ merged.rows[a]["Participant"] = KeySeq[i][1]
            /\ merged.rows[a]["Block_Num"] = KeySeq[i][2]
            /\ merged.rows[b]["Participant"] = KeySeq[k][1]
            /\ merged.rows[b]["Block_Num"] = KeySeq[k][2]


(* a step of fix_erroneous_data whose key matches a record of the merged table *)
FixMatched ==
  /\ aggPc = "fix" /\ aggPc' = "end"
  /\ fixCall' # NoCall
  /\ \E i \in 1..Len(merged.rows) : FixCondition(merged.rows[i], fixCall')

(* C14: a correction whose key matches a record of the merged table sets    *)
(* the named field of that record to null and, when the field is            *)
(* Orientation_Time, lowers the record's Total_Time by the Orientation_Time *)
(* it held before; every other field of the record and every other record  *)
(* of the merged table are unchanged.                                       *)
C14_FixFrame ==
  [][ FixMatched =>
        /\ merged'.exists
        /\ Len(merged'.rows) = Len(merged.rows)
        /\ \A i \in 1..Len(merged.rows) :
             LET old == merged.rows[i]
                 new == merged'.rows[i]
             IN  IF FixCondition(old, fixCall')
                 THEN /\ DOMAIN new = DOMAIN old
                      /\ new[fixCall'.column_to_fix] = NaN
                      /\ fixCall'.column_to_fix = "Orientation_Time" =>
                           /\ new["Total_Time"] # NaN
                           /\ new["Total_Time"][1] =
                                old["Total_Time"][1] - old["Orientation_Time"][1]
                      /\ \A c \in DOMAIN old :
                           ( /\ c # fixCall'.column_to_fix
                             /\ ~(c = "Total_Time"
                                    /\ fixCall'.column_to_fix = "Orientation_Time") )
                             => new[c] = old[c]
                 ELSE new = old
    ]_vars

C14_Witness ==
  /\ aggPc = "end"
  /\ fixCall.column_to_fix = "Orientation_Time"
  /\ \E i, j \in 1..Len(merged.rows) :
       /\ i # j
       /\ FixCondition(merged.rows[i], fixCall)
       /\ merged.rows[i]["Orientation_Time"] = NaN
       /\ merged.rows[i]["Total_Time"] # NaN
       /\ merged.rows[i]["Navigation_Time"] = merged.rows[i]["Total_Time"]
       /\ ~FixCondition(merged.rows[j], fixCall)
       /\ merged.rows[j]["Orientation_Time"] # NaN

(* the mean of column c over the merged rows of one (participant, block)   *)
(* in which it is filled                                                   *)
MergedMean(participant, block_num, c) ==
  DefinedMean(
    FilterSeq(merged.rows,
      { r \in Range(merged.rows) :
          r["Participant"] = participant /\ r["Block_Num"] = block_num }),
    c)

(* C18: after fix_erroneous_data completes, every statistic of every        *)
(* (participant, block) row of the averaged table is the mean, over the     *)
(* non-null values, of that statistic in the merged rows of the same        *)
(* (participant, block).                                                    *)
C18_AveragedFollowsMerged ==
  (aggPc = "end" /\ fixCall # NoCall) =>
    \A n \in 1..Len(averaged.rows) :
      \A c \in Range(METRIC_COLS) :
        averaged.rows[n][c] =
          MergedMean(averaged.rows[n]["Participant"],
                     averaged.rows[n]["Block_Num"], c)


-----------------------------------------------------------------------------
(* Properties of one run of the pipeline                                   *)

RunEnded == runPc \in {"finished", "crashed"}

(* the batch steps that read the session files *)
SessionSteps == {"metrics", "trajectories", "plots"}

(* C13: in every batch loop a session file that is missing or malformed is  *)
(* logged and skipped: no bad file aborts the run, and every parsable       *)
(* session of every folder has the output of every requested step.          *)
C13_BadFileSkipped ==
  RunEnded =>
    /\ runPc = "finished"
    /\ \A i \in 1..Len(DATA_FOLDERS) :
         \A step \in SessionSteps \cap Range(runSteps) :
           Parsable(FolderSessions(DATA_FOLDERS[i]), sessionStatus)
             \subseteq runOut[step]

(* the place of a step in process_data_folder, of a folder in --data-folders *)
StepRank(step) == CHOOSE i \in 1..Len(PIPELINE) : PIPELINE[i] = step

FolderRank(folder) == CHOOSE i \in 1..Len(DATA_FOLDERS) : DATA_FOLDERS[i] = folder

(* the (folder, step) pairs asked for *)
Asked ==
  { <<DATA_FOLDERS[i], step>> :
      i \in 1..Len(DATA_FOLDERS), step \in Range(PIPELINE) \cap Range(runSteps) }

(* C19: whatever the order of the names in --steps, the requested steps of  *)
(* a data folder execute in the order metrics, merge, average,              *)
(* trajectories, plots, folder after folder (so merge and average come      *)
(* after the metrics step of the same folder), and post-process executes    *)
(* only after every requested step of every data folder; a run that         *)
(* finishes has executed each requested step exactly once.                  *)
C19_FixedStepOrder ==
  /\ \A i, j \in 1..Len(runLog) :
       i < j =>
         /\ runLog[i][2] # POST_PROCESS
         /\ runLog[j][2] # POST_PROCESS =>
              /\ FolderRank(runLog[i][1]) <= FolderRank(runLog[j][1])
              /\ runLog[i][1] = runLog[j][1] =>
                   StepRank(runLog[i][2]) < StepRank(runLog[j][2])
  /\ \A j \in 1..Len(runLog) :
       /\ runLog[j][2] = POST_PROCESS =>
            Asked = { runLog[i] : i \in 1..(j - 1) }
       /\ (runLog[j][2] \in {"merge", "average"} /\ "metrics" \in Range(runSteps)) =>
            \E i \in 1..(j - 1) : runLog[i] = <<runLog[j][1], "metrics">>
  /\ runPc = "finished" =>
       /\ { runLog[i] : i \in 1..Len(runLog) } =
            Asked \cup (IF POST_PROCESS \in Range(runSteps)
                        THEN { <<"base", POST_PROCESS>> } ELSE {})
       /\ Len(runLog) = Cardinality({ runLog[i] : i \in 1..Len(runLog) })

C19_Witness ==
  /\ runPc = "finished"
  /\ runSteps[1] = POST_PROCESS
  /\ runSteps[Len(runSteps)] = "metrics"
  /\ Len(runSteps) = Len(PIPELINE) + 1
  /\ runLog[1] = <<DATA_FOLDERS[1], "metrics">>
  /\ runLog[Len(runLog)] = <<"base", POST_PROCESS>>
  /\ Len(runLog) = Len(DATA_FOLDERS) * Len(PIPELINE) + 1

====
